---- MODULE Spec2Model ----
(***************************************************************************)
(* Model of electrumsv/gui/qt/cosigners_view.py: CosignerState,            *)
(* CosignerCard and CosignerList.                                          *)
(*                                                                         *)
(* Every Qt event handler is one action.  A handler runs to completion on  *)
(* the UI thread; the textChanged signals that QPlainTextEdit.clear() and  *)
(* appendPlainText() raise while a handler runs are delivered              *)
(* synchronously, inside the same action.                                  *)
(***************************************************************************)
EXTENDS Integers, Sequences, FiniteSets, TLC

\* ------------------------------------------------------------------ bounds
\* Number of CosignerState objects the wizard creates.
MaxStates == 2
\* Largest cosigner_index handed to CosignerState.__init__.
MaxIndex == 1
\* Depth to which nested signal deliveries are followed.
MaxNesting == 3

\* ------------------------------------------------------------ value spaces
\* Python's None, for Optional[KeyStore].
None == [some |-> FALSE, mpk |-> "", watching |-> FALSE]

\* Strings the key field can hold.
PublicKeyTexts == {"xpubA", "xpubB"}
PrivateKeyTexts == {"xprvA"}
Texts == {"", "junk"} \cup PrivateKeyTexts \cup PublicKeyTexts

\* KeyStore objects: what get_master_public_key() and is_watching_only()
\* return is all the card reads of them.
KeyStores == [some : {TRUE}, mpk : PublicKeyTexts, watching : BOOLEAN]

\* Icons and tooltips of the toggle button, texts and styles of the label.
KeyIcon == "icons8-key.svg"
DeleteIcon == "icons8-delete.svg"
SetToolTip == "Set the current key for this cosigner"
ClearToolTip == "Clear the current key for this cosigner"
RedStyle == "QLabel { color: red; }"

VARIABLES
    class_attrs,   \* the class attributes CosignerState.keystore / .is_local
    states,        \* the CosignerState objects, in creation order
    cards,         \* the CosignerCard widgets, in creation order
    items,         \* the QListWidget's items: the card each one hosts
    lastOp         \* what the last handler did (history, for the properties)

vars == <<class_attrs, states, cards, items, lastOp>>

\* ----------------------------------------------------------- CosignerState
\* Attribute lookup: the instance attribute when set, else the class one.
keystore_of(cls, st) == IF st.keystore_set THEN st.keystore ELSE cls.keystore

is_local_of(cls, st) == IF st.is_local_set THEN st.is_local ELSE cls.is_local

\* CosignerState.__init__: only cosigner_index becomes an instance attribute.
NewCosignerState(cosigner_index) ==
    [cosigner_index |-> cosigner_index,
     keystore_set |-> FALSE, keystore |-> None,
     is_local_set |-> FALSE, is_local |-> FALSE]

\* Mutant of reset: clears is_local and forgets the keystore.
reset_keeps_keystore(st) ==
    [st EXCEPT !.is_local_set = TRUE, !.is_local = FALSE]

\* CosignerState.reset
reset(st) ==
    [st EXCEPT !.keystore_set = TRUE, !.keystore = None,
               !.is_local_set = TRUE, !.is_local = FALSE]

\* CosignerState.is_complete
is_complete(cls, st) == keystore_of(cls, st) # None

\* self._state.keystore = keystore
set_keystore(st, keystore) ==
    [st EXCEPT !.keystore_set = TRUE, !.keystore = keystore]

\* ------------------------------------------------------------ collaborators
\* bitcoinx.bip32_key_from_string: the type of the key parsed, or ValueError.
bip32_key_from_string(text) ==
    IF text \in PublicKeyTexts THEN "BIP32PublicKey"
    ELSE IF text \in PrivateKeyTexts THEN "BIP32PrivateKey"
    ELSE "ValueError"

\* What one call of instantiate_keystore_from_text(EXTENDED_PUBLIC_KEY, text,
\* None) can do: return a keystore, or fail by raising.
InstOutcomes ==
    [raises : {FALSE}, keystore : KeyStores] \cup [raises : {TRUE}, keystore : {None}]

\* What AccountWizard.run() / has_result() / get_keystore() can yield: accepted
\* with a keystore, accepted without a result (the assert of line 141 fails),
\* or not accepted.
WizardOutcomes ==
    [result : {"Accepted"}, has_result : {TRUE}, keystore : KeyStores]
        \cup [result : {"Accepted"}, has_result : {FALSE}, keystore : {None}]
        \cup [result : {"Rejected"}, has_result : {FALSE}, keystore : {None}]

NoInst == [raises |-> FALSE, keystore |-> None]
NoWizard == [result |-> "", has_result |-> FALSE, keystore |-> None]

\* ------------------------------------------------------------- QPlainTextEdit
\* QPlainTextEdit.appendPlainText: a new paragraph at the end of the document.
appendPlainText(doc, text) == IF doc = "" THEN text ELSE doc \o "\n" \o text

\* ------------------------------------------------------------- CosignerCard
\* A world is the part of the heap a handler works on, with what the handler
\* has done so far: w.emits are the cosigner_updated emissions, in order.
World(cls, sts, cds) ==
    [cls |-> cls, states |-> sts, cards |-> cds, emits |-> <<>>,
     raised |-> FALSE, inst_calls |-> 0, wizard_runs |-> 0, cut |-> FALSE]

\* The status label as _update_status_label derives it.
StatusLabel(cls, st) ==
    IF is_complete(cls, st)
    THEN IF keystore_of(cls, st).watching
         THEN [text |-> "External party.", style |-> ""]
         ELSE [text |-> "This account.", style |-> ""]
    ELSE [text |-> "Not yet specified.", style |-> RedStyle]

\* CosignerCard._update_status_label
update_status_label(w, c) ==
    LET lab == StatusLabel(w.cls, w.states[w.cards[c].state])
    IN [w EXCEPT !.cards[c].label_text = lab.text,
                 !.cards[c].label_style = lab.style]

\* Mutant of emit_cosigner_updated: emits the number shown in the card's title.
emit_title_number(w, c) ==
    [w EXCEPT !.emits = Append(@, w.states[w.cards[c].state].cosigner_index + 1)]

\* self.cosigner_updated.emit(self._state.cosigner_index)
emit_cosigner_updated(w, c) ==
    [w EXCEPT !.emits = Append(@, w.states[w.cards[c].state].cosigner_index)]

RECURSIVE update_keystore(_, _, _, _, _)
RECURSIVE event_text_changed(_, _, _, _)

\* The textChanged signal, delivered to its one slot.  QPlainTextEdit raises it
\* for programmatic changes of the document too, read-only or not.
textChanged(w, c, inst, fuel) == event_text_changed(w, c, inst, fuel)

\* self._key_edit.clear()
key_edit_clear(w, c, inst, fuel) ==
    textChanged([w EXCEPT !.cards[c].text = ""], c, inst, fuel)

\* self._key_edit.appendPlainText(text)
key_edit_appendPlainText(w, c, text, inst, fuel) ==
    textChanged([w EXCEPT !.cards[c].text = appendPlainText(@, text)], c, inst, fuel)

\* Mutant of update_keystore_none: the field is not cleared.
update_keystore_none_no_clear(w, c, inst, fuel) ==
    LET s  == w.cards[c].state
        w1 == [w EXCEPT !.states[s] = reset(@)]
        w2 == [w1 EXCEPT !.cards[c].readOnly = FALSE]
    IN  [w2 EXCEPT !.cards[c].icon = KeyIcon, !.cards[c].toolTip = SetToolTip]

\* Mutant of update_keystore_none: the field is left read-only.
update_keystore_none_stays_read_only(w, c, inst, fuel) ==
    LET s  == w.cards[c].state
        w1 == [w EXCEPT !.states[s] = reset(@)]
        w3 == key_edit_clear(w1, c, inst, fuel)
    IN  [w3 EXCEPT !.cards[c].icon = KeyIcon, !.cards[c].toolTip = SetToolTip]

\* CosignerCard._update_keystore, branch keystore is None
update_keystore_none(w, c, inst, fuel) ==
    LET s  == w.cards[c].state
        w1 == [w EXCEPT !.states[s] = reset(@)]
        w2 == [w1 EXCEPT !.cards[c].readOnly = FALSE]
        w3 == key_edit_clear(w2, c, inst, fuel)
    IN  [w3 EXCEPT !.cards[c].icon = KeyIcon, !.cards[c].toolTip = SetToolTip]

\* Mutant of update_keystore_some: the key is appended before the clear.
update_keystore_some_append_first(w, c, keystore, inst, fuel) ==
    LET s  == w.cards[c].state
        w1 == [w EXCEPT !.states[s] = set_keystore(@, keystore)]
        w2 == [w1 EXCEPT !.cards[c].readOnly = TRUE]
        w3 == key_edit_appendPlainText(w2, c, keystore.mpk, inst, fuel)
        w4 == key_edit_clear(w3, c, inst, fuel)
    IN  [w4 EXCEPT !.cards[c].icon = DeleteIcon, !.cards[c].toolTip = ClearToolTip]

\* Mutant of update_keystore_some: the keystore is assigned to the class
\* attribute CosignerState.keystore instead of the instance.
update_keystore_some_on_class(w, c, keystore, inst, fuel) ==
    LET w1 == [w EXCEPT !.cls.keystore = keystore]
        w2 == [w1 EXCEPT !.cards[c].readOnly = TRUE]
        w3 == key_edit_clear(w2, c, inst, fuel)
        w4 == key_edit_appendPlainText(w3, c, keystore.mpk, inst, fuel)
    IN  [w4 EXCEPT !.cards[c].icon = DeleteIcon, !.cards[c].toolTip = ClearToolTip]

\* CosignerCard._update_keystore, branch keystore is not None
update_keystore_some(w, c, keystore, inst, fuel) ==
    LET s  == w.cards[c].state
        w1 == [w EXCEPT !.states[s] = set_keystore(@, keystore)]
        w2 == [w1 EXCEPT !.cards[c].readOnly = TRUE]
        w3 == key_edit_clear(w2, c, inst, fuel)
        w4 == key_edit_appendPlainText(w3, c, keystore.mpk, inst, fuel)
    IN  [w4 EXCEPT !.cards[c].icon = DeleteIcon, !.cards[c].toolTip = ClearToolTip]

\* Mutant of update_keystore: the label is refreshed only when a key is cleared.
update_keystore_stale_label(w, c, keystore, inst, fuel) ==
    IF keystore = None
    THEN emit_cosigner_updated(
             update_status_label(update_keystore_none(w, c, inst, fuel), c), c)
    ELSE emit_cosigner_updated(update_keystore_some(w, c, keystore, inst, fuel), c)

\* CosignerCard._update_keystore
update_keystore(w, c, keystore, inst, fuel) ==
    LET w1 == IF keystore = None
              THEN update_keystore_none(w, c, inst, fuel)
              ELSE update_keystore_some(w, c, keystore, inst, fuel)
    IN  emit_cosigner_updated(update_status_label(w1, c), c)

\* Mutant of is_public_key: any extended key passes.
is_any_extended_key(key) == key # "ValueError"

\* isinstance(key, BIP32PublicKey)
is_public_key(key) == key = "BIP32PublicKey"

\* Mutant of event_text_changed: a text that does not parse resets the card.
event_text_changed_resets_on_error(w, c, inst, fuel) ==
    IF fuel = 0 THEN [w EXCEPT !.cut = TRUE]
    ELSE IF w.cards[c].readOnly THEN w
    ELSE LET text == w.cards[c].text
             key  == bip32_key_from_string(text)
         IN  IF key = "ValueError" THEN update_keystore(w, c, None, inst, fuel - 1)
             ELSE IF ~(key = "BIP32PublicKey") THEN w
             ELSE LET w1 == [w EXCEPT !.inst_calls = @ + 1]
                  IN  IF inst.raises
                      THEN [w1 EXCEPT !.raised = TRUE]
                      ELSE update_keystore(w1, c, inst.keystore, inst, fuel - 1)

\* Mutant of event_text_changed: the read-only guard is missing.
event_text_changed_no_read_only_guard(w, c, inst, fuel) ==
    IF fuel = 0 THEN [w EXCEPT !.cut = TRUE]
    ELSE LET text == w.cards[c].text
             key  == bip32_key_from_string(text)
         IN  IF key = "ValueError" THEN w
             ELSE IF ~(key = "BIP32PublicKey") THEN w
             ELSE LET w1 == [w EXCEPT !.inst_calls = @ + 1]
                  IN  IF inst.raises
                      THEN [w1 EXCEPT !.raised = TRUE]
                      ELSE update_keystore(w1, c, inst.keystore, inst, fuel - 1)

\* CosignerCard._event_text_changed.  An exception that leaves the slot is
\* recorded in w.raised.
event_text_changed(w, c, inst, fuel) ==
    IF fuel = 0 THEN [w EXCEPT !.cut = TRUE]
    ELSE IF w.cards[c].readOnly THEN w
    ELSE LET text == w.cards[c].text
             key  == bip32_key_from_string(text)
         IN  IF key = "ValueError" THEN w
             ELSE IF ~is_public_key(key) THEN w
             ELSE LET w1 == [w EXCEPT !.inst_calls = @ + 1]
                  IN  IF inst.raises
                      THEN [w1 EXCEPT !.raised = TRUE]
                      ELSE update_keystore(w1, c, inst.keystore, inst, fuel - 1)

\* Mutant of event_click_set_cosigner_key: a wizard that is not accepted
\* leaves the card alone.
event_click_ignores_rejection(w, c, wiz, fuel) ==
    IF keystore_of(w.cls, w.states[w.cards[c].state]) # None
    THEN update_keystore(w, c, None, NoInst, fuel)
    ELSE LET w1 == [w EXCEPT !.wizard_runs = @ + 1]
         IN  IF wiz.result = "Accepted"
             THEN IF ~wiz.has_result
                  THEN [w1 EXCEPT !.raised = TRUE]
                  ELSE update_keystore(w1, c, wiz.keystore, NoInst, fuel)
             ELSE w1

\* CosignerCard._event_click_set_cosigner_key
event_click_set_cosigner_key(w, c, wiz, fuel) ==
    IF keystore_of(w.cls, w.states[w.cards[c].state]) # None
    THEN update_keystore(w, c, None, NoInst, fuel)
    ELSE LET w1 == [w EXCEPT !.wizard_runs = @ + 1]
         IN  IF wiz.result = "Accepted"
             THEN IF ~wiz.has_result
                  THEN [w1 EXCEPT !.raised = TRUE]
                  ELSE update_keystore(w1, c, wiz.keystore, NoInst, fuel)
             ELSE update_keystore(w1, c, None, NoInst, fuel)

\* CosignerCard._event_click_copy_key
event_click_copy_key(w, c) == w

\* CosignerCard.__init__: the widgets as built, then _update_keystore(None).
NewCard(s) ==
    [state |-> s, readOnly |-> FALSE, text |-> "", icon |-> KeyIcon,
     toolTip |-> "", label_text |-> "", label_style |-> ""]

\* Mutant of CosignerCard_init: the constructor shows the state as it finds it
\* instead of resetting it.
CosignerCard_init_keeps_state(w, s, fuel) ==
    LET c  == Len(w.cards) + 1
        w1 == [w EXCEPT !.cards = Append(@, NewCard(s))]
        w2 == [w1 EXCEPT !.cards[c].toolTip = SetToolTip]
    IN  emit_cosigner_updated(update_status_label(w2, c), c)

CosignerCard_init(w, s, fuel) ==
    LET c  == Len(w.cards) + 1
        w1 == [w EXCEPT !.cards = Append(@, NewCard(s))]
    IN  update_keystore(w1, c, None, NoInst, fuel)

\* ------------------------------------------------------------------- history
NoCard == [state |-> 0, readOnly |-> FALSE, text |-> "", icon |-> "",
           toolTip |-> "", label_text |-> "", label_style |-> ""]
NoState == NewCosignerState(0)

Op(op, c, text, inst, wiz, pre_card, pre_state, w) ==
    [op |-> op, card |-> c, text |-> text,
     inst |-> IF w.inst_calls > 0 THEN inst ELSE NoInst,
     wiz |-> IF w.wizard_runs > 0 THEN wiz ELSE NoWizard,
     pre_card |-> pre_card, pre_state |-> pre_state,
     emits |-> w.emits, raised |-> w.raised,
     inst_calls |-> w.inst_calls, wizard_runs |-> w.wizard_runs, cut |-> w.cut]

\* -------------------------------------------------------------------- actions
Init ==
    /\ class_attrs = [keystore |-> None, is_local |-> FALSE]
    /\ states = <<>>
    /\ cards = <<>>
    /\ items = <<>>
    /\ lastOp = Op("init", 0, "", NoInst, NoWizard, NoCard, NoState,
                   World(class_attrs, <<>>, <<>>))

\* The wizard creates the state of one more cosigner slot.
CreateState ==
    /\ Len(states) < MaxStates
    /\ \E idx \in 0..MaxIndex :
         /\ states' = Append(states, NewCosignerState(idx))
         /\ lastOp' = Op("new_state", 0, "", NoInst, NoWizard, NoCard, NoState,
                         World(class_attrs, states', cards))
    /\ UNCHANGED <<class_attrs, cards, items>>

\* The wizard assigns the attributes of a state it has built no card for yet.
AssignState ==
    \E s \in 1..Len(states), keystore \in KeyStores, is_local \in BOOLEAN :
        /\ \A c \in 1..Len(cards) : cards[c].state # s
        /\ states' = [states EXCEPT ![s] = [set_keystore(@, keystore) EXCEPT
                                              !.is_local_set = TRUE,
                                              !.is_local = is_local]]
        /\ lastOp' = Op("assign_state", 0, "", NoInst, NoWizard, NoCard, states[s],
                        World(class_attrs, states', cards))
        /\ UNCHANGED <<class_attrs, cards, items>>

\* Mutant of addItem: the item is inserted at the head of the list.
addItem_at_head(its, c) == <<c>> \o its

\* QListWidget.addItem / setItemWidget: the item goes to the end of the list.
addItem(its, c) == Append(its, c)

\* CosignerList.add_state, for a state that has no card yet (a card is bound
\* 1:1 to its state).
AddState ==
    \E s \in 1..Len(states) :
        /\ \A c \in 1..Len(cards) : cards[c].state # s
        /\ LET w == CosignerCard_init(World(class_attrs, states, cards), s, MaxNesting)
               c == Len(w.cards)
           IN  /\ states' = w.states
               /\ cards' = w.cards
               /\ class_attrs' = w.cls
               /\ items' = addItem(items, c)
               /\ lastOp' = Op("add_state", c, "", NoInst, NoWizard,
                               NewCard(s), states[s], w)

\* Whether the text-changed slot, entered on card c holding `text`, gets as far
\* as calling instantiate_keystore_from_text.
ReachesInstantiate(c, text) ==
    ~cards[c].readOnly /\ is_public_key(bip32_key_from_string(text))

\* The key field's document becomes `text` and textChanged is delivered; the
\* keystore collaborator, if called, ends as `inst`.
TextChanged ==
    \E c \in 1..Len(cards), text \in Texts :
      \E inst \in IF ReachesInstantiate(c, text) THEN InstOutcomes ELSE {NoInst} :
        LET w0 == World(class_attrs, states, [cards EXCEPT ![c].text = text])
            w  == textChanged(w0, c, inst, MaxNesting)
        IN  /\ states' = w.states
            /\ cards' = w.cards
            /\ lastOp' = Op("text_changed", c, text, inst, NoWizard,
                            w0.cards[c], states[cards[c].state], w)
            /\ class_attrs' = w.cls
            /\ UNCHANGED items

\* The toggle button is clicked; the sub-wizard, if run, ends as `wiz`.
ClickSetCosignerKey ==
    \E c \in 1..Len(cards) :
      \E wiz \in IF keystore_of(class_attrs, states[cards[c].state]) = None
                 THEN WizardOutcomes ELSE {NoWizard} :
        LET w == event_click_set_cosigner_key(World(class_attrs, states, cards),
                                              c, wiz, MaxNesting)
        IN  /\ states' = w.states
            /\ cards' = w.cards
            /\ lastOp' = Op("click_set_cosigner_key", c, "", NoInst, wiz,
                            cards[c], states[cards[c].state], w)
            /\ class_attrs' = w.cls
            /\ UNCHANGED items

\* The copy button is clicked.
ClickCopyKey ==
    \E c \in 1..Len(cards) :
        LET w == event_click_copy_key(World(class_attrs, states, cards), c)
        IN  /\ states' = w.states
            /\ cards' = w.cards
            /\ lastOp' = Op("click_copy_key", c, "", NoInst, NoWizard,
                            cards[c], states[cards[c].state], w)
            /\ class_attrs' = w.cls
            /\ UNCHANGED items

Next ==
    \/ CreateState
    \/ AssignState
    \/ AddState
    \/ TextChanged
    \/ ClickSetCosignerKey
    \/ ClickCopyKey

Spec == Init /\ [][Next]_vars

\* ----------------------------------------------------------------- properties
\* The operations of a card.
CardOps ==
    {"add_state", "text_changed", "click_set_cosigner_key",
     "click_copy_key"}

\* The state the card of the last operation is bound to, as it is now.
OpState == states[cards[lastOp.card].state]
OpCard == cards[lastOp.card]
OpKeystore == keystore_of(class_attrs, OpState)

\* The card of the last operation was Empty / Bound when its handler was entered.
PreEmpty ==
    keystore_of(class_attrs, lastOp.pre_state) = None /\ ~lastOp.pre_card.readOnly
PreBound == keystore_of(class_attrs, lastOp.pre_state) # None

\* The last operation emitted cosigner_updated exactly once, with the index of
\* the card's state.
OneNotification == lastOp.emits = <<lastOp.pre_state.cosigner_index>>

\* The last operation left the card's CosignerState as it was.
StateUnchanged == OpState = lastOp.pre_state

\* The card of the last operation is Empty and editable now.
NowEmpty == OpKeystore = None /\ ~OpCard.readOnly

TextOp == lastOp.op = "text_changed"
ClickOp == lastOp.op = "click_set_cosigner_key"

\* C1: a text-changed event carrying a text that parses as an extended public
\* key, on an Empty card, binds the card: the state holds the keystore
\* instantiated from the text, the field is read-only and shows that keystore's
\* master public key, and cosigner_updated is emitted exactly once with the
\* state's cosigner_index.
C1_PublicKeyTextBinds ==
    (TextOp /\ PreEmpty /\ bip32_key_from_string(lastOp.text) = "BIP32PublicKey")
        => /\ lastOp.inst_calls = 1
           /\ OpKeystore # None
           /\ OpKeystore = lastOp.inst.keystore
           /\ OpCard.readOnly
           /\ OpCard.text = OpKeystore.mpk
           /\ OneNotification

\* C2: a text-changed event carrying a text that fails extended-key parsing, on
\* an Empty card, leaves the card Empty, never calls the keystore
\* instantiation and emits nothing.
C2_UnparsableTextIgnored ==
    (TextOp /\ PreEmpty /\ bip32_key_from_string(lastOp.text) = "ValueError")
        => /\ NowEmpty
           /\ StateUnchanged
           /\ lastOp.inst_calls = 0
           /\ lastOp.emits = <<>>
           /\ ~lastOp.raised

C2_Witness ==
    /\ TextOp /\ PreEmpty /\ lastOp.text = "junk"
    /\ NowEmpty /\ OpCard.text = "junk"

\* C3: a text-changed event carrying a text that parses as an extended private
\* key, on an Empty card, leaves the card Empty, never calls the keystore
\* instantiation and emits nothing.
C3_PrivateKeyTextIgnored ==
    (TextOp /\ PreEmpty /\ bip32_key_from_string(lastOp.text) = "BIP32PrivateKey")
        => /\ NowEmpty
           /\ StateUnchanged
           /\ lastOp.inst_calls = 0
           /\ lastOp.emits = <<>>
           /\ ~lastOp.raised

C3_Witness ==
    /\ TextOp /\ PreEmpty /\ lastOp.text \in PrivateKeyTexts
    /\ NowEmpty /\ OpCard.text = lastOp.text

\* C4: a click of the toggle button on a Bound card empties it without running
\* the sub-wizard: keystore None, field editable and empty, one notification
\* with the cosigner_index, and the textChanged raised by the clear neither
\* re-binds the card nor notifies again.
C4_ClickOnBoundClears ==
    (ClickOp /\ PreBound)
        => /\ lastOp.wizard_runs = 0
           /\ NowEmpty
           /\ OpCard.text = ""
           /\ lastOp.inst_calls = 0
           /\ OneNotification

C4_Witness ==
    /\ ClickOp /\ PreBound /\ lastOp.pre_card.readOnly
    /\ lastOp.pre_card.text # ""
    /\ NowEmpty /\ Len(lastOp.emits) = 1

\* C5: every card operation that changes whether the card's state is complete
\* emits cosigner_updated within that operation, every emission carries the
\* cosigner_index of the card's state, and no operation changes that index.
C5_TransitionsNotify ==
    (lastOp.op \in CardOps)
        => /\ (is_complete(class_attrs, lastOp.pre_state)
                    # is_complete(class_attrs, OpState))
                => Len(lastOp.emits) >= 1
           /\ \A i \in 1..Len(lastOp.emits) :
                lastOp.emits[i] = lastOp.pre_state.cosigner_index
           /\ OpState.cosigner_index = lastOp.pre_state.cosigner_index

\* A bind and a clear have both happened on a card whose index differs from
\* another card's.
C5_Witness ==
    /\ lastOp.op \in CardOps
    /\ is_complete(class_attrs, lastOp.pre_state) # is_complete(class_attrs, OpState)
    /\ lastOp.emits = <<1>>
    /\ \E c \in 1..Len(cards) :
         states[cards[c].state].cosigner_index # OpState.cosigner_index

\* C6: a click on an Empty card whose sub-wizard does not end Accepted leaves
\* the card Empty (keystore None, field editable and cleared) and still emits
\* exactly one notification with the cosigner_index.
C6_RejectedWizardResets ==
    (ClickOp /\ PreEmpty /\ lastOp.wizard_runs = 1 /\ lastOp.wiz.result # "Accepted")
        => /\ NowEmpty
           /\ OpCard.text = ""
           /\ OneNotification
           /\ ~is_complete(class_attrs, lastOp.pre_state)
           /\ ~is_complete(class_attrs, OpState)

C6_Witness ==
    /\ ClickOp /\ PreEmpty /\ lastOp.wiz.result = "Rejected"
    /\ lastOp.pre_card.text = "junk"
    /\ NowEmpty /\ OpCard.text = "" /\ Len(lastOp.emits) = 1

\* C7: when the text parses as an extended public key and the keystore
\* instantiation fails, the text-changed handler does not let the failure out:
\* the card stays Empty, its state unchanged, and nothing is emitted.
C7_InstantiationFailureContained ==
    (TextOp /\ lastOp.inst_calls > 0 /\ lastOp.inst.raises)
        => /\ ~lastOp.raised
           /\ NowEmpty
           /\ StateUnchanged
           /\ lastOp.emits = <<>>

\* C8: is_complete() is false right after construction and after every
\* reset(), true right after a successful bind, and in every state it is true
\* exactly when the instance holds a keystore.
C8_IsCompleteIffKeystore ==
    /\ \A s \in 1..Len(states) :
         is_complete(class_attrs, states[s])
            <=> (states[s].keystore_set /\ states[s].keystore.some)
    /\ lastOp.op = "new_state" => ~is_complete(class_attrs, states[Len(states)])
    /\ (lastOp.op = "add_state" \/ (ClickOp /\ PreBound)
            \/ (ClickOp /\ lastOp.wiz.result = "Rejected"))
         => ~is_complete(class_attrs, OpState)
    /\ ((TextOp /\ PreEmpty /\ lastOp.inst_calls = 1 /\ ~lastOp.inst.raises)
            \/ (ClickOp /\ PreEmpty /\ lastOp.wiz.result = "Accepted"
                    /\ lastOp.wiz.has_result))
         => is_complete(class_attrs, OpState)

\* A reset of a complete state, with another state complete by a bind.
C8_Witness ==
    /\ ClickOp /\ PreBound
    /\ ~is_complete(class_attrs, OpState)
    /\ \E s \in 1..Len(states) : is_complete(class_attrs, states[s])

\* C9: in every state the label of every card is the one its state determines:
\* "Not yet specified." in red iff not complete, "External party." unstyled iff
\* complete and watching-only, "This account." unstyled iff complete and not
\* watching-only.
C9_StatusLabelFollowsState ==
    \A c \in 1..Len(cards) :
        LET ks == keystore_of(class_attrs, states[cards[c].state])
            lab == <<cards[c].label_text, cards[c].label_style>>
        IN  /\ (lab = <<"Not yet specified.", RedStyle>>) <=> (ks = None)
            /\ (lab = <<"External party.", "">>) <=> (ks # None /\ ks.watching)
            /\ (lab = <<"This account.", "">>) <=> (ks # None /\ ~ks.watching)

C9_Witness ==
    /\ Len(cards) = 2
    /\ cards[1].label_text = "External party."
    /\ cards[2].label_text = "This account."
    /\ TextOp /\ lastOp.pre_card.label_text = "Not yet specified."

\* C10: a click on an Empty card whose sub-wizard ends Accepted with a keystore
\* binds the card: the state holds that keystore, the field is read-only and
\* shows its master public key, the button shows the clear icon and tooltip,
\* and exactly one notification with the cosigner_index is emitted.
C10_AcceptedWizardBinds ==
    (ClickOp /\ PreEmpty /\ lastOp.wiz.result = "Accepted" /\ lastOp.wiz.has_result)
        => /\ OpKeystore = lastOp.wiz.keystore
           /\ OpKeystore # None
           /\ OpCard.readOnly
           /\ OpCard.text = OpKeystore.mpk
           /\ OpCard.icon = DeleteIcon
           /\ OpCard.toolTip = ClearToolTip
           /\ OneNotification

C10_Witness ==
    /\ ClickOp /\ PreEmpty /\ lastOp.wiz.result = "Accepted" /\ lastOp.wiz.has_result
    /\ lastOp.pre_card.text = "junk"
    /\ OpCard.readOnly /\ OpCard.icon = DeleteIcon /\ OpKeystore = lastOp.wiz.keystore

\* C11: the list holds one item per add_state call, in call order: add_state
\* appends one item hosting the card it built for the state passed in, no other
\* operation changes the number of items, and no operation moves an item or
\* rebinds its card, whatever the cards hold.
C11_ItemsInInsertionOrder ==
    [][/\ \A k \in 1..Len(items) :
            /\ k <= Len(items')
            /\ items'[k] = items[k]
            /\ cards'[items[k]].state = cards[items[k]].state
       /\ IF lastOp'.op = "add_state"
          THEN /\ Len(items') = Len(items) + 1
               /\ Len(cards') = Len(cards) + 1
               /\ items'[Len(items')] = lastOp'.card
               /\ cards'[lastOp'.card].state = lastOp'.pre_card.state
          ELSE /\ Len(items') = Len(items)
               /\ Len(cards') = Len(cards)]_vars

\* Two items, the states added in the reverse of their creation order, the
\* first card Empty and the second Bound after a card operation.
C11_Witness ==
    /\ Len(items) = 2
    /\ cards[items[1]].state = 2 /\ cards[items[2]].state = 1
    /\ ~cards[items[1]].readOnly /\ cards[items[1]].text = "junk"
    /\ cards[items[2]].readOnly
    /\ lastOp.op \in {"text_changed", "click_set_cosigner_key"}

\* C12: in every state, for every card, the key field is read-only iff the
\* state's keystore is not None iff the toggle button shows the clear icon and
\* tooltip (and otherwise it shows the set icon and tooltip).
C12_ModeIndicatorsAgree ==
    \A c \in 1..Len(cards) :
        LET bound == keystore_of(class_attrs, states[cards[c].state]) # None
        IN  /\ cards[c].readOnly <=> bound
            /\ (cards[c].icon = DeleteIcon /\ cards[c].toolTip = ClearToolTip) <=> bound
            /\ (cards[c].icon = KeyIcon /\ cards[c].toolTip = SetToolTip) <=> ~bound

\* A card emptied by a click next to a card that is Bound.
C12_Witness ==
    /\ ClickOp /\ PreBound /\ ~OpCard.readOnly /\ OpCard.icon = KeyIcon
    /\ \E c \in 1..Len(cards) : cards[c].readOnly /\ cards[c].icon = DeleteIcon

\* C13: an operation on one card leaves the keystore and is_local of every
\* CosignerState other than the card's own as they were.
C13_OtherStatesUntouched ==
    [][lastOp'.op \in CardOps
        => /\ Len(states') = Len(states)
           /\ \A s \in 1..Len(states) :
                s # cards'[lastOp'.card].state
                    => /\ keystore_of(class_attrs', states'[s])
                            = keystore_of(class_attrs, states[s])
                       /\ is_local_of(class_attrs', states'[s])
                            = is_local_of(class_attrs, states[s])]_vars

\* A card has just been bound while another state holds a different keystore
\* and is local.
C13_Witness ==
    /\ lastOp.op \in {"text_changed", "click_set_cosigner_key"}
    /\ ~is_complete(class_attrs, lastOp.pre_state) /\ OpKeystore # None
    /\ \E s \in 1..Len(states) :
         /\ s # OpCard.state
         /\ keystore_of(class_attrs, states[s]) \notin {None, OpKeystore}
         /\ is_local_of(class_attrs, states[s])

\* C14: a text-changed event on a Bound card is ignored whatever the text: the
\* state and the card stay as they are, the keystore instantiation is not
\* called and nothing is emitted; and the only operation of a Bound card that
\* leaves its state without a keystore is the toggle click.
C14_BoundCardIgnoresText ==
    /\ (TextOp /\ PreBound /\ lastOp.pre_card.readOnly)
         => /\ StateUnchanged
            /\ OpCard = lastOp.pre_card
            /\ lastOp.inst_calls = 0
            /\ lastOp.emits = <<>>
            /\ ~lastOp.raised
    /\ (lastOp.op \in CardOps /\ PreBound /\ lastOp.pre_card.readOnly
            /\ ~is_complete(class_attrs, OpState))
         => ClickOp

\* A Bound card has received another valid extended public key.
C14_Witness ==
    /\ TextOp /\ PreBound /\ lastOp.pre_card.readOnly
    /\ lastOp.text \in PublicKeyTexts
    /\ OpKeystore # None /\ lastOp.text # OpKeystore.mpk
    /\ OpCard.text = lastOp.text

\* C15: the construction of a card leaves its state Empty, also when the state
\* passed in held a keystore: keystore None, is_local false, the card editable
\* and empty, and cosigner_updated emitted once with the cosigner_index within
\* the construction of the card, which is the newest one.
C15_ConstructionResetsState ==
    lastOp.op = "add_state"
        => /\ lastOp.card = Len(cards)
           /\ OpCard.state = lastOp.pre_card.state
           /\ OpKeystore = None
           /\ ~is_local_of(class_attrs, OpState)
           /\ ~is_complete(class_attrs, OpState)
           /\ ~OpCard.readOnly
           /\ OpCard.text = ""
           /\ OneNotification

\* A card has been built for a state that held a keystore and was local.
C15_Witness ==
    /\ lastOp.op = "add_state"
    /\ keystore_of(class_attrs, lastOp.pre_state) # None
    /\ is_local_of(class_attrs, lastOp.pre_state)
    /\ OpKeystore = None /\ Len(lastOp.emits) = 1

====
